---- MODULE Spec2Model ----
(***************************************************************************)
(* EstateIQ backend: the tenant / payment ledger of src/index.js over the  *)
(* relational schema of src/unnamed/part_000 (tenants, payments,           *)
(* maintenance and their foreign keys).                                    *)
(*                                                                         *)
(* Amounts are counted in whole units of the smallest stored amount        *)
(* (DECIMAL(15,2) keeps hundredths).  An optional value (a JSON field that *)
(* may be absent, a nullable column) is a sequence: << >> is               *)
(* undefined / NULL and <<v>> is the value v.  A handler is an action whose *)
(* parameters are the request (token, path and body fields) and the HTTP   *)
(* status it answers with.                                                 *)
(***************************************************************************)
EXTENDS Integers, Sequences, FiniteSets, TLC

\* ---------------------------------------------------------------- bounds
MaxTenants == 2      \* tenant rows ever inserted (ids are never reused)
MaxPayments == 3     \* payment rows ever inserted
MaxMaint == 1        \* maintenance rows ever inserted
MaxAmount == 1       \* largest amount a caller sends
NegAmount == 1       \* callers also send amounts down to -NegAmount
MaxRent == 2         \* largest rent_per_annum a caller sends
MaxNow == 1          \* clock ticks (seconds) that pass
MaxRows == 2         \* rows of one CSV upload
MaxPaid == 2         \* recording stops where amount_paid would leave -MaxPaid..MaxPaid

\* ------------------------------------------------------- optional values
None == << >>
Some(v) == <<v>>
Opt(S) == {None} \cup {Some(v) : v \in S}

\* JavaScript truthiness of an optional number: undefined, null and 0 are falsy
Truthy(x) == x # None /\ x[1] # 0

\* `x || 0` on an optional number
OrZero(x) == IF Truthy(x) THEN x[1] ELSE 0

Max(a, b) == IF a >= b THEN a ELSE b

\* ------------------------------------------------------------- variables
VARIABLES
    tenants,       \* table tenants: id -> row
    payments,      \* table payments: id -> row
    maintenance,   \* table maintenance: id -> row
    nextSn,        \* tenants.sn AUTO_INCREMENT; the uuid() of a new tenant is modelled by it
    nextPid,       \* fresh payment ids (uuid())
    nextMid,       \* fresh maintenance ids (uuid())
    now,           \* clock, in seconds (the resolution of TIMESTAMP created_at)
    today,         \* calendar date of the clock
    year,          \* calendar year of the clock
    proc,          \* requests in progress (statement-interleaved handlers)
    undo,          \* history: the payment recorded last and its tenant's row before it
    base           \* history: the tenants table when the requests in progress began

vars == <<tenants, payments, maintenance, nextSn, nextPid, nextMid, now, today, year, proc, undo, base>>

Procs == {1, 2}
Tokens == {"none", "invalid", "staff", "manager", "admin"}
TenantIds == 1..MaxTenants
PaymentIds == 1..MaxPayments
Statuses == {200, 201, 400, 401, 403, 404, 500}
AmountInputs == Opt((0 - NegAmount)..MaxAmount)
RentInputs == Opt(0..MaxRent)

\* ------------------------------------------------------------------ auth
\* the middleware without its role check
auth_AnyRole(roles, token) ==
    IF token = "none" THEN 401
    ELSE IF token = "invalid" THEN 401
    ELSE 0

\* auth(roles): 0 when the request passes, else the status it is answered with
auth(roles, token) ==
    IF token = "none" THEN 401
    ELSE IF token = "invalid" THEN 401
    ELSE IF roles # {} /\ token \notin roles THEN 403
    ELSE 0

Privileged == {"admin", "manager"}

\* --------------------------------------------------------- receipt numbers
RECURSIVE ToDigits(_)
\* String(n) for n >= 0: the decimal digits of n
ToDigits(n) == IF n < 10 THEN <<n>> ELSE Append(ToDigits(n \div 10), n % 10)

RECURSIVE PadStart(_, _)
\* s.padStart(len, "0")
PadStart(s, len) == IF Len(s) >= len THEN s ELSE PadStart(<<0>> \o s, len)

RECURSIVE ParseInt(_)
\* parseInt of a string of decimal digits
ParseInt(s) == IF s = << >> THEN 0 ELSE ParseInt(SubSeq(s, 1, Len(s) - 1)) * 10 + s[Len(s)]

\* `RCP-${year}-${String(lastNum).padStart(4, "0")}`, kept as its "-" separated parts
FormatReceipt(y, lastNum) == [prefix |-> "RCP", year |-> y, suffix |-> PadStart(ToDigits(lastNum), 4)]

\* receipt_number.split("-").pop(), parsed
ReceiptSuffix(r) == ParseInt(r.suffix)

\* SELECT receipt_number FROM payments ORDER BY created_at DESC LIMIT 1:
\* the rows this may return; rows that tie on created_at are returned in any order
LastReceiptRows(pays) ==
    {p \in DOMAIN pays : \A q \in DOMAIN pays : pays[q].created_at <= pays[p].created_at}

\* lastNum once the row lastReceipt is read (None: the table is empty)
LastNum(pays, lastReceipt) ==
    IF lastReceipt = None THEN 1 ELSE ReceiptSuffix(pays[lastReceipt[1]].receipt_number) + 1

\* --------------------------------------------------------- SQL statements
\* INSERT INTO tenants (...): one more row, sn from AUTO_INCREMENT
InsertTenant(tens, id, rent, paid, quit) ==
    [t \in DOMAIN tens \cup {id} |->
        IF t = id
        THEN [sn |-> id, rent_per_annum |-> rent, amount_paid |-> paid,
              quit_notice |-> quit, quit_notice_date |-> None]
        ELSE tens[t]]

\* the same UPDATE without its WHERE clause
IncrementPaid_NoWhere(tens, id, amount) ==
    [t \in DOMAIN tens |-> [tens[t] EXCEPT !.amount_paid = @ + amount]]

\* a read-then-write: the new value is computed from the value read when the round began
IncrementPaid_ReadThenWrite(tens, id, amount) ==
    IF id \in DOMAIN tens /\ id \in DOMAIN base
    THEN [tens EXCEPT ![id].amount_paid = base[id].amount_paid + amount]
    ELSE tens

\* UPDATE tenants SET amount_paid = amount_paid + ? WHERE id=?
IncrementPaid(tens, id, amount) ==
    [t \in DOMAIN tens |->
        IF t = id THEN [tens[t] EXCEPT !.amount_paid = @ + amount] ELSE tens[t]]

\* the same UPDATE without GREATEST
DecrementPaid_NoFloor(tens, id, amount) ==
    [t \in DOMAIN tens |->
        IF t = id THEN [tens[t] EXCEPT !.amount_paid = @ - amount] ELSE tens[t]]

\* UPDATE tenants SET amount_paid = GREATEST(0, amount_paid - ?) WHERE id=?
DecrementPaid(tens, id, amount) ==
    [t \in DOMAIN tens |->
        IF t = id THEN [tens[t] EXCEPT !.amount_paid = Max(0, @ - amount)] ELSE tens[t]]

\* the same UPDATE adding the value to the stored one
SetPaid_Increment(tens, id, paid) ==
    [t \in DOMAIN tens |->
        IF t = id THEN [tens[t] EXCEPT !.amount_paid = @ + paid] ELSE tens[t]]

\* UPDATE tenants SET amount_paid=? WHERE id=?
SetPaid(tens, id, paid) ==
    [t \in DOMAIN tens |->
        IF t = id THEN [tens[t] EXCEPT !.amount_paid = paid] ELSE tens[t]]

\* UPDATE tenants SET ...,rent_per_annum=?,amount_paid=?,...,quit_notice=? WHERE id=?
SetAll(tens, id, rent, paid, quit) ==
    [t \in DOMAIN tens |->
        IF t = id
        THEN [tens[t] EXCEPT !.rent_per_annum = rent, !.amount_paid = paid, !.quit_notice = quit]
        ELSE tens[t]]

\* UPDATE tenants SET quit_notice=?,quit_notice_date=? WHERE id=?
SetQuit(tens, id, quit, date) ==
    [t \in DOMAIN tens |->
        IF t = id
        THEN [tens[t] EXCEPT !.quit_notice = quit, !.quit_notice_date = date]
        ELSE tens[t]]

\* INSERT INTO payments (...): created_at defaults to CURRENT_TIMESTAMP
InsertPayment(pays, id, tid, amount, receipt, at) ==
    [p \in DOMAIN pays \cup {id} |->
        IF p = id
        THEN [tenant_id |-> tid, amount |-> amount, receipt_number |-> receipt, created_at |-> at]
        ELSE pays[p]]

\* a DELETE that removes nothing
DeletePaymentRow_None(pays, id) == pays

\* DELETE FROM payments WHERE id=?
DeletePaymentRow(pays, id) == [p \in DOMAIN pays \ {id} |-> pays[p]]

\* the foreign key without ON DELETE CASCADE taking effect
CascadePayments_None(pays, tid) == pays

\* FOREIGN KEY (tenant_id) REFERENCES tenants(id) ON DELETE CASCADE
CascadePayments(pays, tid) ==
    [p \in {q \in DOMAIN pays : pays[q].tenant_id # tid} |-> pays[p]]

\* FOREIGN KEY (tenant_id) REFERENCES tenants(id) ON DELETE SET NULL
NullifyMaintenance(maint, tid) ==
    [m \in DOMAIN maint |->
        IF maint[m].tenant_id = Some(tid) THEN [maint[m] EXCEPT !.tenant_id = None] ELSE maint[m]]

\* DELETE FROM tenants WHERE id=?
DeleteTenantRow(tens, id) == [t \in DOMAIN tens \ {id} |-> tens[t]]

\* ------------------------------------------------------------------ state
Idle == [pc |-> "idle", op |-> "none", tid |-> 0, amount |-> 0, pid |-> 0,
         receipt |-> None, status |-> 0, overlapped |-> FALSE]

\* The tables empty: the state of the store once the seeded rows are deleted
\* (DELETE /api/tenants/:id cascades to the seeded payments), and of a store
\* created without the seed statements.
Init ==
    /\ tenants = << >>
    /\ payments = << >>
    /\ maintenance = << >>
    /\ nextSn = 1
    /\ nextPid = 1
    /\ nextMid = 1
    /\ now = 0
    /\ today = 0
    /\ year = 0
    /\ proc = [p \in Procs |-> Idle]
    /\ undo = None
    /\ base = << >>

\* POST /api/tenants
CreateTenant(token, name_ok, rent, paid, quit, status) ==
    /\ UNCHANGED <<payments, maintenance, nextPid, nextMid, now, today, year, proc>>
    /\ IF auth({}, token) # 0
       THEN /\ status = auth({}, token)
            /\ UNCHANGED <<tenants, nextSn>>
       ELSE IF ~name_ok
       THEN /\ status = 400
            /\ UNCHANGED <<tenants, nextSn>>
       ELSE /\ status = 201
            /\ nextSn <= MaxTenants
            /\ tenants' = InsertTenant(tenants, nextSn, OrZero(rent), OrZero(paid), quit)
            /\ nextSn' = nextSn + 1

\* PUT /api/tenants/:id
UpdateTenant(token, id, rent, paid, quit, status) ==
    /\ UNCHANGED <<payments, maintenance, nextSn, nextPid, nextMid, now, today, year, proc>>
    /\ IF auth({}, token) # 0
       THEN /\ status = auth({}, token)
            /\ UNCHANGED tenants
       ELSE /\ status = 200
            /\ tenants' = SetAll(tenants, id, OrZero(rent), OrZero(paid), quit)

\* PATCH /api/tenants/:id/payment
PatchPayment(token, id, paid, status) ==
    /\ UNCHANGED <<payments, maintenance, nextSn, nextPid, nextMid, now, today, year, proc>>
    /\ IF auth({}, token) # 0
       THEN /\ status = auth({}, token)
            /\ UNCHANGED tenants
       ELSE /\ status = 200
            /\ tenants' = SetPaid(tenants, id, OrZero(paid))

\* the date the quit-notice patch stores: new Date().toISOString().split("T")[0] or null
QuitDate(quit, date) == IF quit THEN Some(date) ELSE None

\* PATCH /api/tenants/:id/quit
PatchQuit(token, id, quit, status) ==
    /\ UNCHANGED <<payments, maintenance, nextSn, nextPid, nextMid, now, today, year, proc>>
    /\ IF auth({}, token) # 0
       THEN /\ status = auth({}, token)
            /\ UNCHANGED tenants
       ELSE /\ status = 200
            /\ tenants' = SetQuit(tenants, id, quit, QuitDate(quit, today))

\* DELETE /api/tenants/:id
DeleteTenant(token, id, status) ==
    /\ UNCHANGED <<nextSn, nextPid, nextMid, now, today, year, proc>>
    /\ IF auth(Privileged, token) # 0
       THEN /\ status = auth(Privileged, token)
            /\ UNCHANGED <<tenants, payments, maintenance>>
       ELSE /\ status = 200
            /\ tenants' = DeleteTenantRow(tenants, id)
            /\ payments' = CascadePayments(payments, id)
            /\ maintenance' = NullifyMaintenance(maintenance, id)

\* the validation of POST /api/payments: !tenant_id || !amount
PaymentRejected(tenant_id, amount) == tenant_id = None \/ ~Truthy(amount)

\* the rows `const [[lastReceipt]] = await d.query(...)` may bind (None: no row)
LastReceiptChoices(pays) ==
    IF DOMAIN pays = {} THEN {None} ELSE {Some(p) : p \in LastReceiptRows(pays)}

\* POST /api/payments, run to completion without another request in between
RecordPayment(token, tenant_id, amount, status) ==
    /\ UNCHANGED <<maintenance, nextSn, nextMid, now, today, year, proc>>
    /\ IF auth({}, token) # 0
       THEN /\ status = auth({}, token)
            /\ UNCHANGED <<tenants, payments, nextPid>>
       ELSE IF PaymentRejected(tenant_id, amount)
       THEN /\ status = 400
            /\ UNCHANGED <<tenants, payments, nextPid>>
       ELSE IF tenant_id[1] \notin DOMAIN tenants
       THEN \* the INSERT violates the foreign key and throws
            /\ status = 500
            /\ UNCHANGED <<tenants, payments, nextPid>>
       ELSE /\ status = 201
            /\ nextPid <= MaxPayments
            /\ tenants[tenant_id[1]].amount_paid + amount[1] \in (0 - MaxPaid)..MaxPaid
            /\ \E lastReceipt \in LastReceiptChoices(payments) :
                   payments' = InsertPayment(payments, nextPid, tenant_id[1], amount[1],
                                   FormatReceipt(year, LastNum(payments, lastReceipt)), now)
            /\ tenants' = IncrementPaid(tenants, tenant_id[1], amount[1])
            /\ nextPid' = nextPid + 1

\* DELETE /api/payments/:id, run to completion without another request in between
DeletePayment(token, id, status) ==
    /\ UNCHANGED <<maintenance, nextSn, nextPid, nextMid, now, today, year, proc>>
    /\ IF auth(Privileged, token) # 0
       THEN /\ status = auth(Privileged, token)
            /\ UNCHANGED <<tenants, payments>>
       ELSE IF id \notin DOMAIN payments
       THEN /\ status = 404
            /\ UNCHANGED <<tenants, payments>>
       ELSE /\ status = 200
            /\ tenants' = DecrementPaid(tenants, payments[id].tenant_id, payments[id].amount)
            /\ payments' = DeletePaymentRow(payments, id)

\* POST /api/maintenance
CreateMaintenance(token, tenant_id, title_ok, status) ==
    /\ UNCHANGED <<tenants, payments, nextSn, nextPid, now, today, year, proc>>
    /\ IF auth({}, token) # 0
       THEN /\ status = auth({}, token)
            /\ UNCHANGED <<maintenance, nextMid>>
       ELSE IF ~title_ok
       THEN /\ status = 400
            /\ UNCHANGED <<maintenance, nextMid>>
       ELSE IF tenant_id # None /\ tenant_id[1] \notin DOMAIN tenants
       THEN \* the INSERT violates the foreign key and throws
            /\ status = 500
            /\ UNCHANGED <<maintenance, nextMid>>
       ELSE /\ status = 201
            /\ nextMid <= MaxMaint
            /\ maintenance' = [m \in DOMAIN maintenance \cup {nextMid} |->
                   IF m = nextMid THEN [tenant_id |-> tenant_id] ELSE maintenance[m]]
            /\ nextMid' = nextMid + 1

\* one second passes
Tick ==
    /\ now < MaxNow
    /\ now' = now + 1
    /\ UNCHANGED <<tenants, payments, maintenance, nextSn, nextPid, nextMid, today, year, proc>>

\* one second passes and the date changes
TickDay ==
    /\ now < MaxNow
    /\ now' = now + 1
    /\ today' = today + 1
    /\ UNCHANGED <<tenants, payments, maintenance, nextSn, nextPid, nextMid, year, proc>>

\* one second passes and the year changes
TickYear ==
    /\ now < MaxNow
    /\ now' = now + 1
    /\ today' = today + 1
    /\ year' = year + 1
    /\ UNCHANGED <<tenants, payments, maintenance, nextSn, nextPid, nextMid, proc>>

\* --------------------------------------------------------------- CSV import
\* the characters of a CSV cell; "N" stands for a currency sign
CsvDigits == {"0", "1", "2"}
DigitValue(c) == CASE c = "0" -> 0 [] c = "1" -> 1 [] c = "2" -> 2

\* cell.replace(/[^0-9.]/g, "")
StripNonNumeric(cell) == SelectSeq(cell, LAMBDA c : c \in CsvDigits)

RECURSIVE ParseDigits(_)
ParseDigits(s) ==
    IF s = << >> THEN 0 ELSE ParseDigits(SubSeq(s, 1, Len(s) - 1)) * 10 + DigitValue(s[Len(s)])

\* parseFloat(cell.replace(/[^0-9.]/g, "")) || 0
CsvAmount(cell) == ParseDigits(StripNonNumeric(cell))

\* the rows of an upload: name "" is a row without a resolvable name, name "long"
\* one whose INSERT throws (tenant_name is VARCHAR(255))
CsvRows == {
    [name |-> "", rent |-> <<"2">>, paid |-> <<"1">>],
    [name |-> "ok", rent |-> <<"N", "2">>, paid |-> <<"-", "1">>],
    [name |-> "ok", rent |-> << >>, paid |-> <<"N", "2">>],
    [name |-> "long", rent |-> <<"1">>, paid |-> << >>]}

RECURSIVE SeqsUpTo(_, _)
SeqsUpTo(S, n) ==
    IF n = 0 THEN {<< >>}
    ELSE SeqsUpTo(S, n - 1) \cup {Append(q, x) : q \in {r \in SeqsUpTo(S, n - 1) : Len(r) = n - 1}, x \in S}

CsvFiles == SeqsUpTo(CsvRows, MaxRows)

RECURSIVE ImportRows(_, _, _, _)
\* the loop `for (const row of records)`: the table, the AUTO_INCREMENT counter and the
\* rows inserted so far, and whether an INSERT threw
ImportRows(tens, sn, inserted, rows) ==
    IF rows = << >> THEN [tenants |-> tens, nextSn |-> sn, inserted |-> inserted, threw |-> FALSE]
    ELSE IF Head(rows).name = "" THEN ImportRows(tens, sn, inserted, Tail(rows))
    ELSE IF Head(rows).name = "long"
    THEN [tenants |-> tens, nextSn |-> sn, inserted |-> inserted, threw |-> TRUE]
    ELSE ImportRows(InsertTenant(tens, sn, CsvAmount(Head(rows).rent), CsvAmount(Head(rows).paid), FALSE),
                    sn + 1, Append(inserted, sn), Tail(rows))

\* res.json({ imported: inserted.length, tenants: inserted })
ImportResponse(r) == [imported |-> Len(r.inserted), tenants |-> r.inserted]

\* POST /api/tenants/import
ImportTenants(token, file, status) ==
    /\ UNCHANGED <<payments, maintenance, nextPid, nextMid, now, today, year, proc>>
    /\ IF auth({}, token) # 0
       THEN /\ status = auth({}, token)
            /\ UNCHANGED <<tenants, nextSn>>
       ELSE IF file = None
       THEN /\ status = 400
            /\ UNCHANGED <<tenants, nextSn>>
       ELSE /\ status \in {200, 500}
            /\ LET r == ImportRows(tenants, nextSn, << >>, file[1]) IN
                /\ status = (IF r.threw THEN 500 ELSE 200)
                /\ r.nextSn <= MaxTenants + 1
                /\ tenants' = r.tenants
                /\ nextSn' = r.nextSn

\* ------------------------------------------------------------------- reads
\* the same clause with "paid" not asking for a rent
StatusFilter_NoRent(status, row) ==
    IF status = "paid" THEN row.amount_paid >= row.rent_per_annum
    ELSE IF status = "partial" THEN row.amount_paid > 0 /\ row.amount_paid < row.rent_per_annum
    ELSE IF status = "unpaid" THEN row.amount_paid = 0
    ELSE IF status = "quit" THEN row.quit_notice
    ELSE TRUE

\* the WHERE clause GET /api/tenants builds for ?status=
StatusFilter(status, row) ==
    IF status = "paid" THEN row.amount_paid >= row.rent_per_annum /\ row.rent_per_annum > 0
    ELSE IF status = "partial" THEN row.amount_paid > 0 /\ row.amount_paid < row.rent_per_annum
    ELSE IF status = "unpaid" THEN row.amount_paid = 0
    ELSE IF status = "quit" THEN row.quit_notice
    ELSE TRUE

RECURSIVE OrderBySn(_, _)
\* ORDER BY sn ASC over the rows with the ids in S
OrderBySn(tens, S) ==
    IF S = {} THEN << >>
    ELSE LET first == CHOOSE t \in S : \A u \in S : tens[t].sn <= tens[u].sn
         IN <<first>> \o OrderBySn(tens, S \ {first})

\* GET /api/tenants?status=...: the ids of the rows returned, in order
ListTenants(tens, status) ==
    OrderBySn(tens, {t \in DOMAIN tens : StatusFilter(status, tens[t])})

RECURSIVE Total(_, _)
Total(f, S) ==
    IF S = {} THEN 0 ELSE LET t == CHOOSE u \in S : TRUE IN f[t] + Total(f, S \ {t})

\* SUM(cond) of a 0/1 condition per row; SUM over no rows is NULL
SqlSum(f) == IF DOMAIN f = {} THEN None ELSE Some(Total(f, DOMAIN f))

\* GET /api/stats: the summary row
StatsSummary(tens) ==
    [total_tenants |-> Cardinality(DOMAIN tens),
     fully_paid |-> SqlSum([t \in DOMAIN tens |->
         IF tens[t].amount_paid >= tens[t].rent_per_annum /\ tens[t].rent_per_annum > 0 THEN 1 ELSE 0]),
     partial_paid |-> SqlSum([t \in DOMAIN tens |->
         IF tens[t].amount_paid > 0 /\ tens[t].amount_paid < tens[t].rent_per_annum THEN 1 ELSE 0]),
     unpaid_count |-> SqlSum([t \in DOMAIN tens |->
         IF tens[t].amount_paid = 0 THEN 1 ELSE 0])]

\* ----------------------------------------------------------------- history
\* undo remembers the payment recorded last and the row its tenant had before the
\* recording, until that row is changed by anything else
Track ==
    /\ UNCHANGED base
    /\ undo' = IF nextPid' # nextPid
               THEN Some([pid |-> nextPid, tid |-> payments'[nextPid].tenant_id,
                          before |-> tenants[payments'[nextPid].tenant_id]])
               ELSE IF undo = None THEN None
               ELSE IF undo[1].pid \notin DOMAIN payments' THEN None
               ELSE IF tenants'[undo[1].tid] # tenants[undo[1].tid] THEN None
               ELSE undo

\* ------------------------------------------------------------ ledger
\* the ledger requests, one at a time
LedgerTokens == {"staff", "admin"}
LedgerPayments == 2

Next ==
    \/ \E token \in LedgerTokens, name_ok \in BOOLEAN, rent \in RentInputs, paid \in AmountInputs, status \in Statuses :
        CreateTenant(token, name_ok, rent, paid, FALSE, status) /\ Track
    \/ \E token \in LedgerTokens, id \in TenantIds, rent \in RentInputs, paid \in AmountInputs, status \in Statuses :
        UpdateTenant(token, id, rent, paid, FALSE, status) /\ Track
    \/ \E token \in LedgerTokens, id \in TenantIds, paid \in AmountInputs, status \in Statuses :
        PatchPayment(token, id, paid, status) /\ Track
    \/ \E token \in LedgerTokens, file \in Opt(CsvFiles), status \in Statuses :
        ImportTenants(token, file, status) /\ Track
    \/ \E token \in LedgerTokens, tenant_id \in Opt(TenantIds), amount \in AmountInputs, status \in Statuses :
        RecordPayment(token, tenant_id, amount, status) /\ nextPid' <= LedgerPayments + 1 /\ Track
    \/ \E token \in LedgerTokens, id \in PaymentIds, status \in Statuses :
        DeletePayment(token, id, status) /\ Track

Spec == Init /\ [][Next]_vars

\* ------------------------------------------------------------ receipts
\* payments recorded and deleted one at a time while seconds and years pass
ReceiptNext ==
    \/ \E token \in LedgerTokens, status \in Statuses :
        CreateTenant(token, TRUE, None, None, FALSE, status) /\ UNCHANGED <<undo, base>>
    \/ \E token \in LedgerTokens, tenant_id \in Opt(TenantIds), status \in Statuses :
        RecordPayment(token, tenant_id, Some(1), status) /\ UNCHANGED <<undo, base>>
    \/ \E token \in LedgerTokens, id \in PaymentIds, status \in Statuses :
        DeletePayment(token, id, status) /\ UNCHANGED <<undo, base>>
    \/ Tick /\ UNCHANGED <<undo, base>>
    \/ TickYear /\ UNCHANGED <<undo, base>>

ReceiptSpec == Init /\ [][ReceiptNext]_vars

\* ---------------------------------------------------------- quit notice
\* tenants created without a notice, the quit-notice patch, and days passing
QuitNext ==
    \/ \E token \in LedgerTokens, rent \in RentInputs, status \in Statuses :
        CreateTenant(token, TRUE, rent, None, FALSE, status) /\ UNCHANGED <<undo, base>>
    \/ \E token \in Tokens, id \in TenantIds, quit \in BOOLEAN, status \in Statuses :
        PatchQuit(token, id, quit, status) /\ UNCHANGED <<undo, base>>
    \/ TickDay /\ UNCHANGED <<undo, base>>

QuitSpec == Init /\ [][QuitNext]_vars

\* ---------------------------------------------------------- foreign keys
\* tenants deleted while payments and maintenance tickets refer to them
ForeignKeyNext ==
    \/ \E token \in LedgerTokens, status \in Statuses :
        CreateTenant(token, TRUE, None, None, FALSE, status) /\ UNCHANGED <<undo, base>>
    \/ \E token \in LedgerTokens, tenant_id \in Opt(TenantIds), status \in Statuses :
        RecordPayment(token, tenant_id, Some(1), status) /\ UNCHANGED <<undo, base>>
    \/ \E token \in LedgerTokens, tenant_id \in Opt(TenantIds), title_ok \in BOOLEAN, status \in Statuses :
        CreateMaintenance(token, tenant_id, title_ok, status) /\ UNCHANGED <<undo, base>>
    \/ \E token \in Tokens, id \in TenantIds, status \in Statuses :
        DeleteTenant(token, id, status) /\ UNCHANGED <<undo, base>>

ForeignKeySpec == Init /\ [][ForeignKeyNext]_vars

\* ---------------------------------------------------------- privileges
\* tenants and payments created by any caller and deleted by callers of every kind
AuthNext ==
    \/ \E token \in Tokens, status \in Statuses :
        CreateTenant(token, TRUE, None, None, FALSE, status) /\ UNCHANGED <<undo, base>>
    \/ \E token \in Tokens, tenant_id \in Opt(TenantIds), status \in Statuses :
        RecordPayment(token, tenant_id, Some(1), status) /\ UNCHANGED <<undo, base>>
    \/ \E token \in Tokens, id \in TenantIds, status \in Statuses :
        DeleteTenant(token, id, status) /\ UNCHANGED <<undo, base>>
    \/ \E token \in Tokens, id \in PaymentIds, status \in Statuses :
        DeletePayment(token, id, status) /\ UNCHANGED <<undo, base>>

AuthSpec == Init /\ [][AuthNext]_vars

\* ------------------------------------------------------------- balances
\* tenants created with nothing paid and changed afterwards only by payments
\* recorded with positive amounts and payments deleted, one request at a time
BalanceAmounts == Opt(1..(MaxAmount + 1))

BalanceNext ==
    \/ \E token \in LedgerTokens, rent \in RentInputs, paid \in {None, Some(0)}, status \in Statuses :
        CreateTenant(token, TRUE, rent, paid, FALSE, status) /\ UNCHANGED <<undo, base>>
    \/ \E token \in LedgerTokens, tenant_id \in Opt(TenantIds), amount \in BalanceAmounts,
          status \in Statuses :
        RecordPayment(token, tenant_id, amount, status) /\ UNCHANGED <<undo, base>>
    \/ \E token \in LedgerTokens, id \in PaymentIds, status \in Statuses :
        DeletePayment(token, id, status) /\ UNCHANGED <<undo, base>>

BalanceSpec == Init /\ [][BalanceNext]_vars

\* ----------------------------------------------------- overlapping requests
\* POST /api/payments and DELETE /api/payments/:id statement by statement: a handler
\* runs from one `await d.query(...)` to the next without interruption, and the
\* handlers of other requests run in between.  Requests come in rounds of at most
\* one per process; base is the tenants table when a round begins.
AllIdle == \A p \in Procs : proc[p].pc = "idle"
Quiescent == \A p \in Procs : proc[p].pc \in {"idle", "done"}

StartRound == base' = (IF AllIdle THEN tenants ELSE base)

Done(p, status) == [proc[p] EXCEPT !.pc = "done", !.status = status]

InProgress(p) == proc[p].pc \notin {"idle", "done"}

\* request r begins in process p: it overlaps every request then in progress
Begin(p, r) ==
    proc' = [q \in Procs |->
                IF q = p THEN [r EXCEPT !.overlapped = \E o \in Procs \ {p} : InProgress(o)]
                ELSE IF InProgress(q) THEN [proc[q] EXCEPT !.overlapped = TRUE]
                ELSE proc[q]]

ConcPayments == 2

\* POST /api/payments up to the result of its first query (the receipt number and
\* the id are computed before the next await)
BeginRecord(p, token, tenant_id, amount) ==
    /\ proc[p].pc = "idle"
    /\ StartRound
    /\ UNCHANGED <<tenants, payments, maintenance, nextSn, nextMid, now, today, year, undo>>
    /\ IF auth({}, token) # 0
       THEN /\ Begin(p, [Idle EXCEPT !.pc = "done", !.op = "record", !.status = auth({}, token)])
            /\ UNCHANGED nextPid
       ELSE IF PaymentRejected(tenant_id, amount)
       THEN /\ Begin(p, [Idle EXCEPT !.pc = "done", !.op = "record", !.status = 400])
            /\ UNCHANGED nextPid
       ELSE /\ nextPid <= ConcPayments
            /\ \E lastReceipt \in LastReceiptChoices(payments) :
                   Begin(p, [Idle EXCEPT !.pc = "insert", !.op = "record", !.tid = tenant_id[1],
                                         !.amount = amount[1], !.pid = nextPid,
                                         !.receipt = Some(FormatReceipt(year, LastNum(payments, lastReceipt)))])
            /\ nextPid' = nextPid + 1

\* INSERT INTO payments
InsertStep(p) ==
    /\ proc[p].pc = "insert"
    /\ UNCHANGED <<tenants, maintenance, nextSn, nextPid, nextMid, now, today, year, undo, base>>
    /\ IF proc[p].tid \notin DOMAIN tenants
       THEN \* the INSERT violates the foreign key and throws
            /\ proc' = [proc EXCEPT ![p] = Done(p, 500)]
            /\ UNCHANGED payments
       ELSE /\ payments' = InsertPayment(payments, proc[p].pid, proc[p].tid, proc[p].amount,
                                         proc[p].receipt[1], now)
            /\ proc' = [proc EXCEPT ![p].pc = "update"]

\* UPDATE tenants SET amount_paid = amount_paid + ?, then the read-only SELECT and 201
UpdateStep(p) ==
    /\ proc[p].pc = "update"
    /\ UNCHANGED <<payments, maintenance, nextSn, nextPid, nextMid, now, today, year, undo, base>>
    /\ tenants' = IncrementPaid(tenants, proc[p].tid, proc[p].amount)
    /\ proc' = [proc EXCEPT ![p] = Done(p, 201)]

\* DELETE /api/payments/:id up to the result of SELECT * FROM payments WHERE id=?
BeginDelete(p, token, id) ==
    /\ proc[p].pc = "idle"
    /\ StartRound
    /\ UNCHANGED <<tenants, payments, maintenance, nextSn, nextPid, nextMid, now, today, year, undo>>
    /\ IF auth(Privileged, token) # 0
       THEN Begin(p, [Idle EXCEPT !.pc = "done", !.op = "delete", !.status = auth(Privileged, token)])
       ELSE IF id \notin DOMAIN payments
       THEN Begin(p, [Idle EXCEPT !.pc = "done", !.op = "delete", !.pid = id, !.status = 404])
       ELSE Begin(p, [Idle EXCEPT !.pc = "decrement", !.op = "delete", !.tid = payments[id].tenant_id,
                                !.amount = payments[id].amount, !.pid = id])

\* UPDATE tenants SET amount_paid = GREATEST(0, amount_paid - ?)
DecrementStep(p) ==
    /\ proc[p].pc = "decrement"
    /\ UNCHANGED <<payments, maintenance, nextSn, nextPid, nextMid, now, today, year, undo, base>>
    /\ tenants' = DecrementPaid(tenants, proc[p].tid, proc[p].amount)
    /\ proc' = [proc EXCEPT ![p].pc = "delete"]

\* DELETE FROM payments WHERE id=?, then { success: true }
DeleteStep(p) ==
    /\ proc[p].pc = "delete"
    /\ UNCHANGED <<tenants, maintenance, nextSn, nextPid, nextMid, now, today, year, undo, base>>
    /\ payments' = DeletePaymentRow(payments, proc[p].pid)
    /\ proc' = [proc EXCEPT ![p] = Done(p, 200)]

\* the responses of a round are taken and the next round may begin
Return ==
    /\ Quiescent
    /\ ~AllIdle
    /\ proc' = [p \in Procs |-> Idle]
    /\ UNCHANGED <<tenants, payments, maintenance, nextSn, nextPid, nextMid, now, today, year, undo, base>>

ConcTokens == {"staff", "admin"}
ConcAmounts == Opt(1..(MaxAmount + 1))

ConcNext ==
    \/ \E token \in ConcTokens, status \in Statuses :
        AllIdle /\ CreateTenant(token, TRUE, None, None, FALSE, status) /\ UNCHANGED <<undo, base>>
    \/ \E token \in ConcTokens, id \in TenantIds, status \in Statuses :
        AllIdle /\ PatchPayment(token, id, Some(0), status) /\ UNCHANGED <<undo, base>>
    \/ \E p \in Procs, token \in ConcTokens, tenant_id \in Opt(TenantIds), amount \in ConcAmounts :
        BeginRecord(p, token, tenant_id, amount)
    \/ \E p \in Procs : InsertStep(p)
    \/ \E p \in Procs : UpdateStep(p)
    \/ \E p \in Procs, token \in ConcTokens, id \in PaymentIds : BeginDelete(p, token, id)
    \/ \E p \in Procs : DecrementStep(p)
    \/ \E p \in Procs : DeleteStep(p)
    \/ Return
    \/ Tick /\ UNCHANGED <<undo, base>>

ConcSpec == Init /\ [][ConcNext]_vars

\* ------------------------------------------------------------------ claims
\* A step that records a payment takes a fresh payment id (nextPid' # nextPid), and a
\* step that deletes one takes no id; the formulas below say so first.
\* the requests the claims range over
PassingTokens == {t \in Tokens : auth({}, t) = 0}
PrivilegedTokens == {t \in Tokens : auth(Privileged, t) = 0}

\* every row of f other than those with ids in S is the same in g
SameExcept(f, g, S) == \A x \in DOMAIN f \ S : x \in DOMAIN g /\ g[x] = f[x]

\* C1: a record-payment request with amount a for an existing tenant T that is
\* accepted (201) leaves T.amount_paid = its value before + a, adds exactly one
\* payment row, owned by T with amount a, and changes no other tenant and no
\* other payment row.
C1_RecordPaymentEffect ==
    [][nextPid' # nextPid =>
       \A token \in Tokens, tenant_id \in Opt(TenantIds), amount \in AmountInputs :
        RecordPayment(token, tenant_id, amount, 201) =>
            /\ tenant_id[1] \in DOMAIN tenants
            /\ DOMAIN tenants' = DOMAIN tenants
            /\ tenants'[tenant_id[1]].amount_paid = tenants[tenant_id[1]].amount_paid + amount[1]
            /\ SameExcept(tenants, tenants', {tenant_id[1]})
            /\ Cardinality(DOMAIN payments' \ DOMAIN payments) = 1
            /\ \A p \in DOMAIN payments' \ DOMAIN payments :
                   payments'[p].tenant_id = tenant_id[1] /\ payments'[p].amount = amount[1]
            /\ SameExcept(payments, payments', {})
    ]_vars

\* two tenants each hold one recorded payment, and each balance is that payment's amount
C1_Witness ==
    /\ DOMAIN payments = {1, 2}
    /\ payments[1].tenant_id # payments[2].tenant_id
    /\ \A p \in {1, 2} : tenants[payments[p].tenant_id].amount_paid = payments[p].amount
    /\ payments[2].amount > 0

\* C2: deleting an existing payment of amount a owned by T sets T.amount_paid to
\* max(0, T.amount_paid - a) and removes exactly that row; deleting a payment id
\* that does not exist answers 404 and changes no tenant and no payment row.
C2_DeletePaymentEffect ==
    /\ [](\A token \in PrivilegedTokens, id \in PaymentIds, status \in Statuses :
            ENABLED DeletePayment(token, id, status)
                <=> status = (IF id \in DOMAIN payments THEN 200 ELSE 404))
    /\ [][\A token \in PrivilegedTokens, id \in PaymentIds :
            /\ DeletePayment(token, id, 200) =>
                LET T == payments[id].tenant_id
                    a == payments[id].amount
                IN /\ DOMAIN tenants' = DOMAIN tenants
                   /\ tenants'[T].amount_paid =
                          (IF tenants[T].amount_paid - a > 0 THEN tenants[T].amount_paid - a ELSE 0)
                   /\ SameExcept(tenants, tenants', {T})
                   /\ DOMAIN payments' = DOMAIN payments \ {id}
                   /\ SameExcept(payments, payments', {id})
            /\ DeletePayment(token, id, 404) => UNCHANGED <<tenants, payments>>
       ]_vars

\* a recorded payment has been deleted while another one is still stored for a
\* tenant whose balance was floored at 0
C2_Witness ==
    /\ nextPid = 3
    /\ DOMAIN payments = {1}
    /\ payments[1].amount > 0
    /\ tenants[payments[1].tenant_id].amount_paid = 0

\* C3: in every reachable state every tenant's amount_paid is >= 0.
C3_PaidNeverNegative == \A t \in DOMAIN tenants : tenants[t].amount_paid >= 0

\* C4: record payment with a missing tenant_id, a missing amount, a zero amount or
\* a negative amount is answered 400, inserts no payment row and changes no
\* tenant's amount_paid.
C4_PositiveAmountRequired ==
    [][\A token \in PassingTokens, tenant_id \in Opt(TenantIds), amount \in AmountInputs,
          status \in Statuses :
        (RecordPayment(token, tenant_id, amount, status)
            /\ (tenant_id = None \/ amount = None \/ amount[1] <= 0))
        => (status = 400 /\ UNCHANGED <<tenants, payments>>)
    ]_vars

\* the largest receipt suffix stored
MaxSuffix(pays) ==
    CHOOSE n \in {ReceiptSuffix(pays[p].receipt_number) : p \in DOMAIN pays} :
        \A q \in DOMAIN pays : ReceiptSuffix(pays[q].receipt_number) <= n

\* C5: the receipt number of a newly recorded payment has the suffix 1 when no
\* payment is stored and otherwise one plus the largest suffix stored, which is
\* the suffix of the payment created last, whatever the years in the receipts.
C5_ReceiptIsLastPlusOne ==
    [][nextPid' # nextPid =>
        ReceiptSuffix(payments'[nextPid].receipt_number) =
            (IF DOMAIN payments = {} THEN 1 ELSE MaxSuffix(payments) + 1)
    ]_vars

\* the derived statuses of a row
StatusesOf(row) == {st \in {"paid", "partial", "unpaid"} : StatusFilter(st, row)}

\* C6 as amended: overlapping requests against one tenant never lose an update.
\* When a round of two requests on the same tenant has completed with both
\* successful, with b the tenant's amount_paid when the round began:
\*   two record-payments of a1 and a2 leave b + a1 + a2;
\*   a delete of an earlier payment of a and a record of c leave what the two
\*   updates give one after the other, max(0, b - a) + c or max(0, b + c - a);
\*   a delete of the very payment being recorded leaves b or max(0, b - a) + a.
RoundOf(p, q) ==
    /\ p # q
    /\ proc[p].pc = "done" /\ proc[q].pc = "done"
    /\ proc[p].tid = proc[q].tid
    /\ proc[p].tid \in DOMAIN tenants

TwoRecords(p, q) ==
    /\ RoundOf(p, q)
    /\ proc[p].op = "record" /\ proc[p].status = 201
    /\ proc[q].op = "record" /\ proc[q].status = 201

DeleteAndRecord(p, q) ==
    /\ RoundOf(p, q)
    /\ proc[p].op = "delete" /\ proc[p].status = 200
    /\ proc[q].op = "record" /\ proc[q].status = 201

C7_RecordThenDeleteRestores ==
    [][\A token \in PrivilegedTokens, id \in PaymentIds :
        (undo # None /\ undo[1].pid = id /\ DeletePayment(token, id, 200)) =>
            /\ tenants'[undo[1].tid].amount_paid = undo[1].before.amount_paid
            /\ StatusesOf(tenants'[undo[1].tid]) = StatusesOf(undo[1].before)
    ]_vars

Range(q) == {q[i] : i \in 1..Len(q)}

\* C8: the tenant list filtered by paid, partial or unpaid returns exactly the
\* tenants with (rent > 0 and amount_paid >= rent), (0 < amount_paid < rent),
\* (amount_paid = 0); the /api/stats counts are the numbers of those tenants
\* (SUM over an empty table is NULL); a tenant with rent 0 is never listed or
\* counted as paid.
C8_DerivedStatus ==
    LET Paid == {t \in DOMAIN tenants :
                    tenants[t].rent_per_annum > 0 /\ tenants[t].amount_paid >= tenants[t].rent_per_annum}
        Partial == {t \in DOMAIN tenants :
                    0 < tenants[t].amount_paid /\ tenants[t].amount_paid < tenants[t].rent_per_annum}
        Unpaid == {t \in DOMAIN tenants : tenants[t].amount_paid = 0}
        Count(S) == IF DOMAIN tenants = {} THEN None ELSE Some(Cardinality(S))
        stats == StatsSummary(tenants)
    IN /\ Range(ListTenants(tenants, "paid")) = Paid
       /\ Range(ListTenants(tenants, "partial")) = Partial
       /\ Range(ListTenants(tenants, "unpaid")) = Unpaid
       /\ stats.fully_paid = Count(Paid)
       /\ stats.partial_paid = Count(Partial)
       /\ stats.unpaid_count = Count(Unpaid)
       /\ \A t \in DOMAIN tenants :
              tenants[t].rent_per_annum = 0 => t \notin Range(ListTenants(tenants, "paid"))

\* one tenant is paid up, the other has paid something against no rent
C8_Witness ==
    \E t, u \in DOMAIN tenants :
        /\ tenants[t].rent_per_annum > 0 /\ tenants[t].amount_paid = tenants[t].rent_per_annum
        /\ tenants[u].rent_per_annum = 0 /\ tenants[u].amount_paid > 0
        /\ ListTenants(tenants, "paid") = <<t>>

\* C9: the quit-notice patch stores the current date exactly when quit_notice goes
\* from false to true, clears it when the patch sets quit_notice false, and leaves
\* the stored date alone when quit_notice was already true.
C9_DateOnlyOnTransition ==
    [][\A token \in PassingTokens, id \in DOMAIN tenants, quit \in BOOLEAN :
        PatchQuit(token, id, quit, 200) =>
            tenants'[id].quit_notice_date =
                (IF ~quit THEN None
                 ELSE IF ~tenants[id].quit_notice THEN Some(today)
                 ELSE tenants[id].quit_notice_date)
    ]_vars

\* C10: every payment row's tenant_id names a stored tenant; deleting a tenant
\* removes its payment rows and no others, keeps every maintenance ticket, those
\* of the tenant with tenant_id null and the others as they were, and leaves the
\* other tenants alone.
C10_ForeignKeys ==
    /\ [](\A p \in DOMAIN payments : payments[p].tenant_id \in DOMAIN tenants)
    /\ [][\A token \in PrivilegedTokens, id \in DOMAIN tenants :
            DeleteTenant(token, id, 200) =>
                /\ DOMAIN tenants' = DOMAIN tenants \ {id}
                /\ SameExcept(tenants, tenants', {id})
                /\ DOMAIN payments' = {p \in DOMAIN payments : payments[p].tenant_id # id}
                /\ SameExcept(payments, payments', DOMAIN payments \ DOMAIN payments')
                /\ DOMAIN maintenance' = DOMAIN maintenance
                /\ \A m \in DOMAIN maintenance :
                       maintenance'[m].tenant_id =
                           (IF maintenance[m].tenant_id = Some(id) THEN None ELSE maintenance[m].tenant_id)
       ]_vars

\* tenant 1 is gone with its payment, its ticket is unlinked, tenant 2 keeps its payment
C10_Witness ==
    /\ DOMAIN tenants = {2}
    /\ nextPid > 2
    /\ DOMAIN payments # {}
    /\ \A p \in DOMAIN payments : payments[p].tenant_id = 2
    /\ 1 \in DOMAIN maintenance
    /\ maintenance[1].tenant_id = None

\* the status the privileged endpoints answer a caller who is not let through
Refusal(token) == IF token \in {"none", "invalid"} THEN 401 ELSE 403

\* the step removes a tenant row or a payment row
RowsRemoved ==
    \/ DOMAIN tenants \ DOMAIN tenants' # {}
    \/ DOMAIN payments \ DOMAIN payments' # {}

\* C11: DELETE /api/tenants/:id and DELETE /api/payments/:id answer 401 to a
\* request without a token or with an invalid one and 403 to a valid token whose
\* role is neither admin nor manager, and then change no tenant row, payment row
\* or amount_paid; a step that removes a tenant or payment row is a deletion
\* requested with an admin or manager token.
C11_DeletesArePrivileged ==
    /\ [](\A token \in Tokens \ Privileged, status \in Statuses :
            /\ \A id \in TenantIds :
                /\ ENABLED DeleteTenant(token, id, status) <=> status = Refusal(token)
                /\ ~ENABLED (DeleteTenant(token, id, status)
                                /\ (tenants' # tenants \/ payments' # payments))
            /\ \A id \in PaymentIds :
                /\ ENABLED DeletePayment(token, id, status) <=> status = Refusal(token)
                /\ ~ENABLED (DeletePayment(token, id, status)
                                /\ (tenants' # tenants \/ payments' # payments)))
    /\ [][RowsRemoved =>
            \E token \in Privileged :
                \/ \E id \in TenantIds : DeleteTenant(token, id, 200)
                \/ \E id \in PaymentIds : DeletePayment(token, id, 200)
       ]_vars

\* tenant 1 has been deleted, and of the two payments recorded one is gone while
\* the other stays with tenant 2
C11_Witness ==
    /\ DOMAIN tenants = {2}
    /\ nextPid = 3
    /\ Cardinality(DOMAIN payments) = 1
    /\ \A p \in DOMAIN payments : payments[p].tenant_id = 2

\* C12: a full update, a payment-only patch, a quit-notice patch and a record
\* payment that name a tenant which does not exist are answered 404 and change
\* no tenant row and no payment row.
C12_UnknownTenantIs404 ==
    \A token \in PassingTokens, id \in TenantIds \ DOMAIN tenants, status \in Statuses :
        /\ ENABLED UpdateTenant(token, id, Some(1), Some(1), FALSE, status) => status = 404
        /\ ENABLED PatchPayment(token, id, Some(1), status) => status = 404
        /\ ENABLED PatchQuit(token, id, TRUE, status) => status = 404
        /\ ENABLED RecordPayment(token, Some(id), Some(1), status) => status = 404
        /\ ~ENABLED ((\/ UpdateTenant(token, id, Some(1), Some(1), FALSE, status)
                      \/ PatchPayment(token, id, Some(1), status)
                      \/ PatchQuit(token, id, TRUE, status)
                      \/ RecordPayment(token, Some(id), Some(1), status))
                     /\ (tenants' # tenants \/ payments' # payments))

\* the sum of the amounts of the payment rows of tenant t
PaymentsOf(t) == {p \in DOMAIN payments : payments[p].tenant_id = t}
PaidByRows(t) == Total([p \in PaymentsOf(t) |-> payments[p].amount], PaymentsOf(t))

\* C13: a full update and a payment-only patch of an existing tenant are accepted
\* and store the amount_paid the caller sent (0 when none is sent) whatever was
\* stored before, so that the same request applied again changes nothing, and
\* neither touches a payment row.
C13_PaidIsSetNotAdded ==
    \A token \in PassingTokens, id \in DOMAIN tenants, rent \in RentInputs, paid \in AmountInputs :
        /\ ENABLED PatchPayment(token, id, paid, 200)
        /\ ~ENABLED (PatchPayment(token, id, paid, 200)
                     /\ ~(/\ tenants'[id].amount_paid = OrZero(paid)
                          /\ SetPaid(tenants', id, OrZero(paid)) = tenants'
                          /\ payments' = payments))
        /\ ENABLED UpdateTenant(token, id, rent, paid, FALSE, 200)
        /\ ~ENABLED (UpdateTenant(token, id, rent, paid, FALSE, 200)
                     /\ ~(/\ tenants'[id].amount_paid = OrZero(paid)
                          /\ SetAll(tenants', id, OrZero(rent), OrZero(paid), FALSE) = tenants'
                          /\ payments' = payments))

\* the only payment ever recorded is stored, and its tenant's amount_paid is not
\* the amount of that payment
C13_Witness ==
    /\ nextPid = 2
    /\ DOMAIN payments = {1}
    /\ payments[1].amount > 0
    /\ tenants[payments[1].tenant_id].rent_per_annum > 0
    /\ tenants[payments[1].tenant_id].amount_paid = 0
    /\ PaidByRows(payments[1].tenant_id) # tenants[payments[1].tenant_id].amount_paid

\* the rows of an upload that have a name and whose INSERT can succeed
Insertable(file) == {i \in 1..Len(file) : file[i].name = "ok"}

\* C14: in a CSV import every row with a resolvable name whose insert can succeed
\* is inserted, also after a row whose insert failed, rows without a name are
\* skipped, and the request is answered 200 with the count and the rows inserted.
C14_FailedRowDoesNotAbort ==
    \A token \in PassingTokens, file \in CsvFiles, status \in Statuses :
        nextSn + Cardinality(Insertable(file)) <= MaxTenants + 1 =>
            /\ ENABLED ImportTenants(token, Some(file), status) => status = 200
            /\ ~ENABLED (ImportTenants(token, Some(file), status)
                         /\ Cardinality(DOMAIN tenants' \ DOMAIN tenants)
                                # Cardinality(Insertable(file)))

\* C15: no two stored payment rows carry the same receipt number, also when
\* record-payment requests overlap.
C15_ReceiptsUnique ==
    \A p \in DOMAIN payments, q \in DOMAIN payments :
        p # q => payments[p].receipt_number # payments[q].receipt_number

\* C16: two overlapping deletions of the same payment of amount a subtract a from
\* its tenant's amount_paid once: when both have answered 200, amount_paid is
\* its value before the two requests less a, floored at 0.
C16_SubtractedOnce ==
    \A p \in Procs, q \in Procs :
        (/\ RoundOf(p, q)
         /\ proc[p].op = "delete" /\ proc[p].status = 200
         /\ proc[q].op = "delete" /\ proc[q].status = 200
         /\ proc[p].pid = proc[q].pid)
        => tenants[proc[p].tid].amount_paid
               = Max(0, base[proc[p].tid].amount_paid - proc[p].amount)

StatusCounts ==
    LET stats == StatsSummary(tenants)
    IN  IF stats.fully_paid = None \/ stats.partial_paid = None \/ stats.unpaid_count = None
        THEN None
        ELSE Some(stats.fully_paid[1] + stats.partial_paid[1] + stats.unpaid_count[1])

\* C18: the three derived statuses partition the tenants: every tenant with
\* rent_per_annum >= 0 and amount_paid >= 0 has exactly one of paid, partial and
\* unpaid, and where all tenants are such the three counts of /api/stats add up
\* to total_tenants.
C18_StatusesPartition ==
    /\ \A t \in DOMAIN tenants :
           tenants[t].rent_per_annum >= 0 /\ tenants[t].amount_paid >= 0
               => Cardinality(StatusesOf(tenants[t])) = 1
    /\ (/\ DOMAIN tenants # {}
        /\ \A t \in DOMAIN tenants :
               tenants[t].rent_per_annum >= 0 /\ tenants[t].amount_paid >= 0)
           => StatusCounts = Some(StatsSummary(tenants).total_tenants)

====
